---- MODULE Spec2Model ----
(***************************************************************************)
(* Model of samples/balus/balus-demo.cc and samples/balus/util.h: the      *)
(* embedding host's main(), readFile(), the registerFunc lambda, the two   *)
(* native handlers ExecuteFile and TestString, and the Result<T> utility.  *)
(* The script engine is an environment: the outcome of every engine or OS  *)
(* call (open, fstat, read, Script::Compile, the script's own behaviour)   *)
(* is an input drawn with \E at the step that makes the call.              *)
(***************************************************************************)
EXTENDS Integers, Sequences, FiniteSets, TLC

\* ---------------------------------------------------------------- bounds
MaxArgc == 2
\* largest st_size the environment reports for the script file
MaxFileSize == 2
\* scaled-down stand-in for the longest string String::NewFromUtf8 accepts
MaxStrLen == 1
\* native calls one script run makes at most
MaxCalls == 2
\* arguments a script passes to a native function at most
MaxArgs == 1
\* registerFunc calls in the registration harness
MaxRegs == 4

VARIABLES
  pc,            \* position of main
  argc,          \* number of command-line arguments
  exitCode,      \* << value main returned >>; << >> while it has not returned
  stderr,        \* diagnostics written to std::cerr, in order
  stdout,        \* blocks TestString printed, in order
  errno,         \* the C library's errno
  v8state,       \* "uninit", "initialized", "disposed"
  isolate,       \* "none", "live", "disposed"
  disposeCount,  \* calls of isolate->Dispose()
  scopes,        \* stack of entered scopes (isolate_scope, handle_scope, context_scope)
  exitLog,       \* order in which scopes were left
  global,        \* properties of context->Global(): set of [name, handler]
  regLog,        \* history of registerFunc calls
  fd,            \* descriptor of readFile: "none", "open", "closed"
  rf,            \* locals of readFile: st_size, nread, OS error of the failing call
  maybeCode,     \* Result<std::string> returned by readFile
  assertFailed,  \* an assert() of Result<T> was violated
  compileResult, \* MaybeLocal returned by Script::Compile: "none", "script", "empty"
  hasCaught,     \* tryCatch.HasCaught()
  script,        \* "Uncompiled", "Compiled", "Completed", "Faulted"
  runCount,      \* calls of Script::Run
  runResult,     \* MaybeLocal returned by Run: "none", "value", "empty"
  emptyRead,     \* an empty MaybeLocal was converted with ToLocalChecked
  calls,         \* native calls made by the running script
  pendingEx,     \* exception scheduled on the isolate
  lastCall       \* record of the last native handler invocation

vars == << pc, argc, exitCode, stderr, stdout, errno, v8state, isolate,
           disposeCount, scopes, exitLog, global, regLog, fd, rf, maybeCode,
           assertFailed, compileResult, hasCaught, script, runCount, runResult,
           emptyRead, calls, pendingEx, lastCall >>

\* ------------------------------------------------------------ util.h
\* Result<T>::inner is a std::variant<T, Error>: the alternative it holds
\* and that alternative's payload.
NoResult == [alt |-> "unset", payload |-> "none"]

MakeValue(v) == [alt |-> "T", payload |-> v]

MakeError(error) == [alt |-> "Error", payload |-> error]

IsError(r) == r.alt = "Error"

IsOK(r) == ~IsError(r)

\* the assert in GetValue / GetErrorMessage holds
GetValueAssert(r) == IsOK(r) /\ r.alt = "T"

GetErrorMessageAssert(r) == IsError(r)

\* ------------------------------------------------------------ libc
OpenErrnos == {"ENOENT", "EACCES"}

ReadErrnos == {"EIO", "EISDIR"}

Errnos == {"0"} \cup OpenErrnos \cup ReadErrnos

strerror(e) ==
  CASE e = "0" -> "Success"
    [] e = "ENOENT" -> "No such file or directory"
    [] e = "EACCES" -> "Permission denied"
    [] e = "EIO" -> "Input/output error"
    [] e = "EISDIR" -> "Is a directory"

\* ------------------------------------------------------------ messages
MsgExecuteFileArgs ==
  << "F", "a", "i", "l", "e", "d", " ", "t", "o", " ", "e", "x", "e", "c", "u", "t",
     "e", " ", "'", "E", "x", "e", "c", "u", "t", "e", "F", "i", "l", "e", "'", ":",
     " ", "e", "x", "p", "e", "c", "t", " ", "1", " ", "p", "a", "r", "a", "m", "e",
     "t", "e", "r", ",", " ", "b", "u", "t", " ", "o", "n", "l", "y", " ", "0", " ",
     "p", "r", "e", "s", "e", "n", "t", "s", "." >>

MsgTestStringArgs ==
  << "F", "a", "i", "l", "e", "d", " ", "t", "o", " ", "e", "x", "e", "c", "u", "t",
     "e", " ", "'", "T", "e", "s", "t", "S", "t", "r", "i", "n", "g", "'", ":", " ",
     "e", "x", "p", "e", "c", "t", " ", "1", " ", "p", "a", "r", "a", "m", "e", "t",
     "e", "r", ",", " ", "b", "u", "t", " ", "o", "n", "l", "y", " ", "0", " ", "p",
     "r", "e", "s", "e", "n", "t", "s", "." >>

MsgTestStringConv ==
  << "F", "a", "i", "l", "e", "d", " ", "t", "o", " ", "e", "x", "e", "c", "u", "t",
     "e", " ", "'", "T", "e", "s", "t", "S", "t", "r", "i", "n", "g", "'", ":", " ",
     "t", "h", "e", " ", "p", "r", "o", "v", "i", "d", "e", "d", " ", "v", "a", "l",
     "u", "e", " ", "c", "a", "n", "n", "o", "t", " ", "b", "e", " ", "c", "o", "n",
     "v", "e", "r", "t", "e", "d", " ", "t", "o", " ", "'", "s", "t", "r", "i", "n",
     "g", "'" >>

\* ------------------------------------------------------------ scopes
RECURSIVE Reverse(_)
Reverse(s) == IF s = << >> THEN << >> ELSE Reverse(Tail(s)) \o << Head(s) >>

\* Leaving the block of main, by falling off its end or by a return inside
\* it, destroys the scope objects in reverse order of their construction.
Unwind_constructionOrder(entered) == entered

Unwind(entered) == Reverse(entered)

\* ------------------------------------------------------------ registerFunc
\* global->Set(context, js_name, js_func): the property js_name of the
\* global object is js_func afterwards, whatever it was before.
registerFunc_keepFirst(g, name, func) ==
  IF \E p \in g : p.name = name THEN g
  ELSE g \cup { [name |-> name, handler |-> func] }

registerFunc(g, name, func) ==
  { p \in g : p.name # name } \cup { [name |-> name, handler |-> func] }

\* ------------------------------------------------------------ handlers
NoEx == [kind |-> "none", msg |-> << >>]

TypeError(m) == [kind |-> "TypeError", msg |-> m]

NoCall == [handler |-> "none", nargs |-> 0, exception |-> NoEx,
           printed |-> << >>, toStringCalls |-> 0, retSet |-> FALSE]

\* values a script passes: a string converts with ToString, a symbol does not
ArgValues == {"string", "symbol"}

ArgLists == UNION { [1..n -> ArgValues] : n \in 0..MaxArgs }

TestStringBlocks == << "TEST STRING", "TEST UTF16", "TEST UTF8", "TEST ONEBYTE" >>

\* effect of one invocation of ExecuteFile(args)
ExecuteFile(args) ==
  [handler |-> "ExecuteFile", nargs |-> Len(args),
   exception |-> IF Len(args) = 0 THEN TypeError(MsgExecuteFileArgs) ELSE NoEx,
   printed |-> << >>, toStringCalls |-> 0, retSet |-> FALSE]

\* effect of one invocation of TestString(args)
TestString_noReturn(args) ==
  IF Len(args) = 0
  THEN [handler |-> "TestString", nargs |-> 0,
        exception |-> TypeError(MsgTestStringArgs),
        printed |-> TestStringBlocks, toStringCalls |-> 1, retSet |-> FALSE]
  ELSE IF args[1] # "string"
  THEN [handler |-> "TestString", nargs |-> Len(args),
        exception |-> TypeError(MsgTestStringConv),
        printed |-> << >>, toStringCalls |-> 1, retSet |-> FALSE]
  ELSE [handler |-> "TestString", nargs |-> Len(args),
        exception |-> NoEx,
        printed |-> TestStringBlocks, toStringCalls |-> 1, retSet |-> FALSE]

TestString(args) ==
  IF Len(args) = 0
  THEN [handler |-> "TestString", nargs |-> 0,
        exception |-> TypeError(MsgTestStringArgs),
        printed |-> << >>, toStringCalls |-> 0, retSet |-> FALSE]
  ELSE IF args[1] # "string"
  THEN [handler |-> "TestString", nargs |-> Len(args),
        exception |-> TypeError(MsgTestStringConv),
        printed |-> << >>, toStringCalls |-> 1, retSet |-> FALSE]
  ELSE [handler |-> "TestString", nargs |-> Len(args),
        exception |-> NoEx,
        printed |-> TestStringBlocks, toStringCalls |-> 1, retSet |-> FALSE]

Dispatch(handler, args) ==
  IF handler = "ExecuteFile" THEN ExecuteFile(args) ELSE TestString(args)

\* ------------------------------------------------------------ initial state
Init ==
  /\ pc = "start"
  /\ argc \in 1..MaxArgc
  /\ exitCode = << >>
  /\ stderr = << >>
  /\ stdout = << >>
  /\ errno = "0"
  /\ v8state = "uninit"
  /\ isolate = "none"
  /\ disposeCount = 0
  /\ scopes = << >>
  /\ exitLog = << >>
  /\ global = {}
  /\ regLog = << >>
  /\ fd = "none"
  /\ rf = [size |-> 0, nread |-> 0, failure |-> "none", opened |-> FALSE]
  /\ maybeCode = NoResult
  /\ assertFailed = FALSE
  /\ compileResult = "none"
  /\ hasCaught = FALSE
  /\ script = "Uncompiled"
  /\ runCount = 0
  /\ runResult = "none"
  /\ emptyRead = FALSE
  /\ calls = 0
  /\ pendingEx = NoEx
  /\ lastCall = NoCall

\* ------------------------------------------------------------ main
engineVars == << v8state, isolate, disposeCount >>

scopeVars == << scopes, exitLog >>

regVars == << global, regLog >>

fileVars == << fd, rf, maybeCode >>

scriptVars == << compileResult, hasCaught, script, runCount, runResult,
                emptyRead >>

callVars == << calls, pendingEx, lastCall, stdout >>

\* a return statement inside the block of main: the scope objects are
\* destroyed, then main returns code
ReturnFromBlock(code) ==
  /\ exitCode' = << code >>
  /\ exitLog' = exitLog \o Unwind(scopes)
  /\ scopes' = << >>
  /\ pc' = "returned"

\* if (argc < 2) { usage; return -1; }
CheckArgs ==
  /\ pc = "start"
  /\ IF argc < 2
     THEN /\ stderr' = Append(stderr, << "usage", "argv[0] path" >>)
          /\ exitCode' = << -1 >>
          /\ pc' = "returned"
     ELSE /\ pc' = "init_v8"
          /\ UNCHANGED << stderr, exitCode >>
  /\ UNCHANGED << argc, errno, engineVars, scopeVars, regVars, fileVars,
                  assertFailed, scriptVars, callVars >>

\* V8::InitializeICUDefaultLocation .. V8::Initialize; the library calls
\* made here may leave any value in errno
InitializeV8 ==
  /\ pc = "init_v8"
  /\ v8state' = "initialized"
  /\ \E e \in Errnos : errno' = e
  /\ pc' = "new_isolate"
  /\ UNCHANGED << argc, exitCode, stderr, isolate, disposeCount, scopeVars,
                  regVars, fileVars, assertFailed, scriptVars, callVars >>

\* v8::Isolate::New(create_params)
NewIsolate ==
  /\ pc = "new_isolate"
  /\ isolate' = "live"
  /\ pc' = "isolate_scope"
  /\ UNCHANGED << argc, exitCode, stderr, errno, v8state, disposeCount,
                  scopeVars, regVars, fileVars, assertFailed, scriptVars,
                  callVars >>

\* v8::Isolate::Scope isolate_scope(isolate)
EnterIsolateScope ==
  /\ pc = "isolate_scope"
  /\ scopes' = Append(scopes, "isolate")
  /\ pc' = "handle_scope"
  /\ UNCHANGED << argc, exitCode, stderr, errno, engineVars, exitLog, regVars,
                  fileVars, assertFailed, scriptVars, callVars >>

\* v8::HandleScope handle_scope(isolate)
EnterHandleScope ==
  /\ pc = "handle_scope"
  /\ scopes' = Append(scopes, "handle")
  /\ pc' = "context_scope"
  /\ UNCHANGED << argc, exitCode, stderr, errno, engineVars, exitLog, regVars,
                  fileVars, assertFailed, scriptVars, callVars >>

\* context = v8::Context::New(isolate); v8::Context::Scope context_scope(context)
EnterContextScope ==
  /\ pc = "context_scope"
  /\ scopes' = Append(scopes, "context")
  /\ pc' = "register1"
  /\ UNCHANGED << argc, exitCode, stderr, errno, engineVars, exitLog, regVars,
                  fileVars, assertFailed, scriptVars, callVars >>

\* registerFunc("ExecuteFile", ExecuteFile)
RegisterExecuteFile ==
  /\ pc = "register1"
  /\ global' = registerFunc(global, "ExecuteFile", "ExecuteFile")
  /\ regLog' = Append(regLog, << "ExecuteFile", "ExecuteFile" >>)
  /\ pc' = "register2"
  /\ UNCHANGED << argc, exitCode, stderr, errno, engineVars, scopeVars,
                  fileVars, assertFailed, scriptVars, callVars >>

\* registerFunc("TestString", TestString)
RegisterTestString ==
  /\ pc = "register2"
  /\ global' = registerFunc(global, "TestString", "TestString")
  /\ regLog' = Append(regLog, << "TestString", "TestString" >>)
  /\ pc' = "read_file"
  /\ UNCHANGED << argc, exitCode, stderr, errno, engineVars, scopeVars,
                  fileVars, assertFailed, scriptVars, callVars >>

\* ------------------------------------------------------------ readFile
\* fd = ::open(path, O_RDONLY); if (fd < 0) return MakeError(strerror(errno))
ReadFileOpen ==
  /\ pc = "read_file"
  /\ \E r \in {"ok"} \cup OpenErrnos :
       IF r = "ok"
       THEN /\ fd' = "open"
            /\ rf' = [rf EXCEPT !.opened = TRUE]
            /\ pc' = "rf_stat"
            /\ UNCHANGED << errno, maybeCode >>
       ELSE /\ errno' = r
            /\ rf' = [rf EXCEPT !.failure = r]
            /\ maybeCode' = MakeError(strerror(r))
            /\ pc' = "check_read"
            /\ UNCHANGED fd
  /\ UNCHANGED << argc, exitCode, stderr, engineVars, scopeVars, regVars,
                  assertFailed, scriptVars, callVars >>

\* struct stat statbuf {}; ::fstat(fd, &statbuf): the result of fstat is
\* not looked at; when it fails st_size keeps its zero initialisation
ReadFileStat ==
  /\ pc = "rf_stat"
  /\ \E ok \in BOOLEAN, sz \in 0..MaxFileSize :
       IF ok
       THEN /\ rf' = [rf EXCEPT !.size = sz]
            /\ UNCHANGED errno
       ELSE /\ rf' = [rf EXCEPT !.size = 0]
            /\ errno' = "EIO"
  /\ pc' = "rf_read"
  /\ UNCHANGED << argc, exitCode, stderr, engineVars, scopeVars, regVars, fd,
                  maybeCode, assertFailed, scriptVars, callVars >>

\* text.resize(st_size); nread = ::read(fd, text.data(), st_size);
\* if (nread != st_size) { close; return MakeError(strerror(errno)); }
\* close; return text;
\* read returns -1 and sets errno, or returns a count up to st_size and
\* leaves errno alone.
ReadFileRead ==
  /\ pc = "rf_read"
  /\ \E n \in (-1)..rf.size, e \in ReadErrnos :
       LET newErrno == IF n = -1 THEN e ELSE errno IN
       /\ errno' = newErrno
       /\ rf' = [rf EXCEPT !.nread = n,
                           !.failure = IF n = -1 THEN e ELSE "none"]
       /\ maybeCode' = IF n # rf.size
                         THEN MakeError(strerror(newErrno))
                         ELSE MakeValue([len |-> rf.size])
  /\ fd' = "closed"
  /\ pc' = "check_read"
  /\ UNCHANGED << argc, exitCode, stderr, engineVars, scopeVars, regVars,
                  assertFailed, scriptVars, callVars >>

\* CheckRead with the test inverted: if (maybeCode.IsOK())
CheckRead_checksIsOK ==
  /\ pc = "check_read"
  /\ IF IsOK(maybeCode)
     THEN /\ assertFailed' = (assertFailed \/ ~GetErrorMessageAssert(maybeCode))
          /\ stderr' = Append(stderr, << "Failed to read", "garbage" >>)
          /\ ReturnFromBlock(-1)
     ELSE /\ pc' = "new_source"
          /\ UNCHANGED << assertFailed, stderr, exitCode, scopeVars >>
  /\ UNCHANGED << argc, errno, engineVars, regVars, fileVars, scriptVars,
                  callVars >>

\* if (maybeCode.IsError()) { cerr << "Failed to read " << ...
\*   << maybeCode.GetErrorMessage(); return -1; }
CheckRead ==
  /\ pc = "check_read"
  /\ IF IsError(maybeCode)
     THEN /\ assertFailed' = (assertFailed \/ ~GetErrorMessageAssert(maybeCode))
          /\ stderr' = Append(stderr, << "Failed to read", maybeCode.payload >>)
          /\ ReturnFromBlock(-1)
     ELSE /\ pc' = "new_source"
          /\ UNCHANGED << assertFailed, stderr, exitCode, scopeVars >>
  /\ UNCHANGED << argc, errno, engineVars, regVars, fileVars, scriptVars,
                  callVars >>

\* source = newV8Str(isolate, maybeCode.GetValue()); TryCatch tryCatch(isolate)
\* String::NewFromUtf8 yields nothing for a text longer than the engine's
\* maximum string length, and ToLocalChecked then aborts the process.
NewSource ==
  /\ pc = "new_source"
  /\ assertFailed' = (assertFailed \/ ~GetValueAssert(maybeCode))
  /\ IF GetValueAssert(maybeCode) /\ maybeCode.payload.len > MaxStrLen
     THEN /\ emptyRead' = TRUE
          /\ pc' = "aborted"
     ELSE /\ pc' = "compile"
          /\ UNCHANGED emptyRead
  /\ UNCHANGED << argc, exitCode, stderr, errno, engineVars, scopeVars,
                  regVars, fileVars, compileResult, hasCaught, script, runCount, runResult,
                  callVars >>

\* ------------------------------------------------------------ compile, run
\* Compile without the early return: the run is started after a failure too
Compile_runsOnFailure ==
  /\ pc = "compile"
  /\ \E ok \in BOOLEAN, caught \in BOOLEAN :
       IF ok
       THEN /\ script' = "Compiled"
            /\ compileResult' = "script"
            /\ UNCHANGED hasCaught
       ELSE /\ hasCaught' = caught
            /\ compileResult' = "empty"
            /\ UNCHANGED script
  /\ pc' = "run"
  /\ UNCHANGED << argc, exitCode, stderr, errno, engineVars, scopeVars,
                  regVars, fileVars, assertFailed, runCount, runResult,
                  emptyRead, callVars >>

\* Script::Compile(context, source).ToLocal(&script)
Compile ==
  /\ pc = "compile"
  /\ \E ok \in BOOLEAN, caught \in BOOLEAN :
       IF ok
       THEN /\ script' = "Compiled"
            /\ compileResult' = "script"
            /\ pc' = "run"
            /\ UNCHANGED hasCaught
       ELSE /\ hasCaught' = caught
            /\ compileResult' = "empty"
            /\ pc' = "compile_failed"
            /\ UNCHANGED script
  /\ UNCHANGED << argc, exitCode, stderr, errno, engineVars, scopeVars,
                  regVars, fileVars, assertFailed, runCount, runResult,
                  emptyRead, callVars >>

\* HandleCompileFailure returning 0 instead of -1
HandleCompileFailure_returns0 ==
  /\ pc = "compile_failed"
  /\ IF hasCaught
     THEN stderr' = Append(stderr, << "Failed to compile", "exception text" >>)
     ELSE UNCHANGED stderr
  /\ ReturnFromBlock(0)
  /\ UNCHANGED << argc, errno, engineVars, regVars, fileVars, assertFailed,
                  scriptVars, callVars >>

\* if (tryCatch.HasCaught()) { cerr << "Failed to compile" ... } return -1;
HandleCompileFailure ==
  /\ pc = "compile_failed"
  /\ IF hasCaught
     THEN stderr' = Append(stderr, << "Failed to compile", "exception text" >>)
     ELSE UNCHANGED stderr
  /\ ReturnFromBlock(-1)
  /\ UNCHANGED << argc, errno, engineVars, regVars, fileVars, assertFailed,
                  scriptVars, callVars >>

\* script->Run(context): the script starts executing
Run ==
  /\ pc = "run"
  /\ runCount' = runCount + 1
  /\ pc' = "in_script"
  /\ UNCHANGED << argc, exitCode, stderr, errno, engineVars, scopeVars,
                  regVars, fileVars, assertFailed, compileResult, hasCaught, script,
                  runResult, emptyRead, callVars >>

\* the running script calls a function bound in the global namespace
ScriptCall ==
  /\ pc = "in_script"
  /\ calls < MaxCalls
  /\ pendingEx = NoEx
  /\ \E p \in global, args \in ArgLists :
       LET r == Dispatch(p.handler, args) IN
       /\ lastCall' = r
       /\ pendingEx' = r.exception
       /\ stdout' = stdout \o r.printed
  /\ calls' = calls + 1
  /\ UNCHANGED << pc, argc, exitCode, stderr, errno, engineVars, scopeVars,
                  regVars, fileVars, assertFailed, scriptVars >>

\* the script catches the exception a native function threw
ScriptCatch ==
  /\ pc = "in_script"
  /\ pendingEx # NoEx
  /\ pendingEx' = NoEx
  /\ UNCHANGED << pc, argc, exitCode, stderr, errno, engineVars, scopeVars,
                  regVars, fileVars, assertFailed, scriptVars, calls,
                  lastCall, stdout >>

\* the script runs to its end: Run yields a value
ScriptComplete ==
  /\ pc = "in_script"
  /\ pendingEx = NoEx
  /\ script' = "Completed"
  /\ runResult' = "value"
  /\ pc' = "run_ret"
  /\ UNCHANGED << argc, exitCode, stderr, errno, engineVars, scopeVars,
                  regVars, fileVars, assertFailed, compileResult, hasCaught, runCount,
                  emptyRead, callVars >>

\* an exception (the script's own, or a native function's) is not caught
\* by the script: Run yields nothing and tryCatch holds the exception
ScriptThrow ==
  /\ pc = "in_script"
  /\ script' = "Faulted"
  /\ runResult' = "empty"
  /\ hasCaught' = TRUE
  /\ pendingEx' = NoEx
  /\ pc' = "run_ret"
  /\ UNCHANGED << argc, exitCode, stderr, errno, engineVars, scopeVars,
                  regVars, fileVars, assertFailed, compileResult, runCount, emptyRead,
                  calls, lastCall, stdout >>

\* result = script->Run(context).ToLocalChecked(); Utf8Value utf8(result);
\* ToLocalChecked on an empty MaybeLocal is a fatal error: the process aborts.
RunToLocalChecked ==
  /\ pc = "run_ret"
  /\ IF runResult = "empty"
     THEN /\ emptyRead' = TRUE
          /\ pc' = "aborted"
     ELSE /\ pc' = "leave_block"
          /\ UNCHANGED emptyRead
  /\ UNCHANGED << argc, exitCode, stderr, errno, engineVars, scopeVars,
                  regVars, fileVars, assertFailed, compileResult, hasCaught, script,
                  runCount, runResult, callVars >>

\* the closing braces of the two blocks: the scope objects are destroyed
LeaveBlock ==
  /\ pc = "leave_block"
  /\ exitLog' = exitLog \o Unwind(scopes)
  /\ scopes' = << >>
  /\ pc' = "dispose_isolate"
  /\ UNCHANGED << argc, exitCode, stderr, errno, engineVars, regVars,
                  fileVars, assertFailed, scriptVars, callVars >>

\* isolate->Dispose()
DisposeIsolate ==
  /\ pc = "dispose_isolate"
  /\ isolate' = "disposed"
  /\ disposeCount' = disposeCount + 1
  /\ pc' = "dispose_v8"
  /\ UNCHANGED << argc, exitCode, stderr, errno, v8state, scopeVars, regVars,
                  fileVars, assertFailed, scriptVars, callVars >>

\* V8::Dispose(); V8::DisposePlatform(); delete allocator
DisposeV8 ==
  /\ pc = "dispose_v8"
  /\ v8state' = "disposed"
  /\ pc' = "return_0"
  /\ UNCHANGED << argc, exitCode, stderr, errno, isolate, disposeCount,
                  scopeVars, regVars, fileVars, assertFailed, scriptVars,
                  callVars >>

\* return 0
ReturnSuccess ==
  /\ pc = "return_0"
  /\ exitCode' = << 0 >>
  /\ pc' = "returned"
  /\ UNCHANGED << argc, stderr, errno, engineVars, scopeVars, regVars,
                  fileVars, assertFailed, scriptVars, callVars >>

Next ==
  \/ CheckArgs
  \/ InitializeV8
  \/ NewIsolate
  \/ EnterIsolateScope
  \/ EnterHandleScope
  \/ EnterContextScope
  \/ RegisterExecuteFile
  \/ RegisterTestString
  \/ ReadFileOpen
  \/ ReadFileStat
  \/ ReadFileRead
  \/ CheckRead
  \/ NewSource
  \/ Compile
  \/ HandleCompileFailure
  \/ Run
  \/ ScriptCall
  \/ ScriptCatch
  \/ ScriptComplete
  \/ ScriptThrow
  \/ RunToLocalChecked
  \/ LeaveBlock
  \/ DisposeIsolate
  \/ DisposeV8
  \/ ReturnSuccess

Spec == Init /\ [][Next]_vars

\* ------------------------------------------------------------ registration harness
\* registerFunc applied to any sequence of (name, handler) pairs on the one
\* context of main, starting where main makes its first registration.
RegNames == {"ExecuteFile", "TestString"}

RegHandlers == {"ExecuteFile", "TestString"}

InitReg ==
  /\ pc = "register1"
  /\ argc = 2
  /\ exitCode = << >>
  /\ stderr = << >>
  /\ stdout = << >>
  /\ errno \in Errnos
  /\ v8state = "initialized"
  /\ isolate = "live"
  /\ disposeCount = 0
  /\ scopes = << "isolate", "handle", "context" >>
  /\ exitLog = << >>
  /\ global = {}
  /\ regLog = << >>
  /\ fd = "none"
  /\ rf = [size |-> 0, nread |-> 0, failure |-> "none", opened |-> FALSE]
  /\ maybeCode = NoResult
  /\ assertFailed = FALSE
  /\ compileResult = "none"
  /\ hasCaught = FALSE
  /\ script = "Uncompiled"
  /\ runCount = 0
  /\ runResult = "none"
  /\ emptyRead = FALSE
  /\ calls = 0
  /\ pendingEx = NoEx
  /\ lastCall = NoCall

RegisterFuncCall ==
  /\ pc = "register1"
  /\ Len(regLog) < MaxRegs
  /\ \E name \in RegNames, func \in RegHandlers :
       /\ global' = registerFunc(global, name, func)
       /\ regLog' = Append(regLog, << name, func >>)
  /\ UNCHANGED << pc, argc, exitCode, stderr, errno, engineVars, scopeVars,
                  fileVars, assertFailed, scriptVars, callVars >>

NextReg == RegisterFuncCall

SpecReg == InitReg /\ [][NextReg]_vars

\* ------------------------------------------------------------ claims
Expect1Parameter ==
  << "e", "x", "p", "e", "c", "t", " ", "1", " ", "p", "a", "r", "a", "m", "e", "t",
     "e", "r" >>

Contains(s, sub) ==
  \E i \in 0..(Len(s) - Len(sub)) : SubSeq(s, i + 1, i + Len(sub)) = sub

ReadOK == maybeCode.alt = "T"

ReadFailed == maybeCode.alt = "Error"

\* C1: once main has returned, its exit code is 0 exactly when the file was
\* read, the script compiled and the run yielded a value; it is -1 when the
\* path argument is missing, when readFile returned an error and when
\* Script::Compile yielded no script; it is never anything else.
C1_ExitCode ==
  pc = "returned" =>
    /\ exitCode \in { << 0 >>, << -1 >> }
    /\ (exitCode = << 0 >>) <=>
         (argc >= 2 /\ ReadOK /\ compileResult = "script" /\ runResult = "value")
    /\ (argc < 2 \/ ReadFailed \/ compileResult = "empty") => exitCode = << -1 >>

C1_Witness ==
  pc = "returned" /\ exitCode = << -1 >> /\ compileResult = "empty"

\* C2: when Script::Run yields no value the host does not convert the absent
\* result, prints the exception text and does not abort.
C2_RunFailureGuarded ==
  runResult = "empty" =>
    /\ ~emptyRead
    /\ pc # "aborted"
    /\ pc # "run_ret" =>
         \E i \in 1..Len(stderr) : stderr[i][2] = "exception text"

\* C3: every return of main that follows the creation of the isolate finds
\* the isolate disposed exactly once and the engine runtime torn down, the
\* runtime is torn down only after the disposal, and no scope is entered on
\* a disposed isolate.
C3_DisposedOnEveryReturn ==
  /\ (pc = "returned" /\ isolate # "none") =>
        (disposeCount = 1 /\ isolate = "disposed" /\ v8state = "disposed")
  /\ v8state = "disposed" => isolate = "disposed"
  /\ isolate = "disposed" => scopes = << >>
  /\ disposeCount <= 1

\* C4: main returns -1 only after it has written a diagnostic to std::cerr.
C4_DiagnosticBeforeFailure ==
  (pc = "returned" /\ exitCode = << -1 >>) => Len(stderr) >= 1

\* C5: a native handler invoked with no argument throws a TypeError whose
\* message contains "expect 1 parameter" and does nothing else: it prints
\* nothing, sets no return value and converts no value to a string.
C5_ZeroArgsTypeError ==
  (lastCall.handler # "none" /\ lastCall.nargs = 0) =>
    /\ lastCall.exception.kind = "TypeError"
    /\ Contains(lastCall.exception.msg, Expect1Parameter)
    /\ lastCall.printed = << >>
    /\ lastCall.toStringCalls = 0
    /\ ~lastCall.retSet

C5_Witness ==
  /\ lastCall.handler = "TestString"
  /\ lastCall.nargs = 0
  /\ pendingEx.kind = "TypeError"

\* index of the last registration of name in regLog, 0 when there is none
LastReg(name) ==
  LET S == { i \in 1..Len(regLog) : regLog[i][1] = name }
  IN IF S = {} THEN 0 ELSE CHOOSE i \in S : \A j \in S : j <= i

\* C6: after any sequence of registerFunc calls the global namespace binds
\* each registered name to exactly one handler, that of the most recent
\* registration of the name, and binds no other name.
C6_LastRegistrationWins ==
  \A name \in RegNames :
    { p.handler : p \in { q \in global : q.name = name } } =
      IF LastReg(name) = 0 THEN {} ELSE { regLog[LastReg(name)][2] }

C6_Witness ==
  \E i, j \in 1..Len(regLog) :
    /\ i < j
    /\ regLog[i][1] = regLog[j][1]
    /\ regLog[i][2] # regLog[j][2]
    /\ Len(regLog) >= 3

\* C7: when readFile has returned, its Result is an error exactly when open
\* failed or read returned a count other than st_size, the message of that
\* error is the OS error string of the call that failed, an OK Result holds
\* st_size bytes, and a descriptor that was opened is closed.
C7_ReadFileResult ==
  pc = "check_read" =>
    /\ IsError(maybeCode) <=> (~rf.opened \/ rf.nread # rf.size)
    /\ IsError(maybeCode) =>
         (rf.failure # "none" /\ maybeCode.payload = strerror(rf.failure))
    /\ IsOK(maybeCode) => maybeCode.payload.len = rf.size
    /\ rf.opened => fd = "closed"

ScopesLeftInReverse == exitLog = << "context", "handle", "isolate" >>

\* C8: the three scopes are left context first, then handle, then isolate,
\* on every way out of the block (falling off its end and each return -1),
\* no scope is entered once the block is left, and the context is not
\* entered when the isolate is disposed.
C8_ScopesReverseOrder ==
  /\ (pc \in {"dispose_isolate", "dispose_v8", "return_0"}
        \/ (pc = "returned" /\ isolate # "none")) =>
       (scopes = << >> /\ ScopesLeftInReverse)
  /\ scopes # << >> => exitLog = << >>
  /\ isolate = "disposed" => scopes = << >>

C8_Witness ==
  pc = "returned" /\ exitCode = << -1 >> /\ ReadFailed /\ ScopesLeftInReverse

Registered(name, handler) == [name |-> name, handler |-> handler] \in global

C9_Order ==
  /\ compileResult # "none" =>
       /\ Registered("ExecuteFile", "ExecuteFile")
       /\ Registered("TestString", "TestString")
       /\ ReadOK
  /\ runCount >= 1 => compileResult = "script"
  /\ runCount <= 1
  /\ script = "Uncompiled" => runCount = 0 \/ compileResult = "empty"
  /\ script = "Compiled" => compileResult = "script"
  /\ script \in {"Completed", "Faulted"} => (runCount = 1 /\ compileResult = "script")

C9_Transitions ==
  script' # script =>
    << script, script' >> \in { << "Uncompiled", "Compiled" >>,
                                << "Compiled", "Completed" >>,
                                << "Compiled", "Faulted" >> }

\* C9: the steps of main occur in a fixed order: both native functions are
\* registered before the script is compiled, the script is compiled only
\* after readFile succeeded, it is run only after the compilation produced
\* a script and at most once, and the script unit moves only from
\* Uncompiled to Compiled and from Compiled to Completed or Faulted.
C9_FixedOrder == [][C9_Order' /\ C9_Transitions]_vars

C9_Witness ==
  script = "Faulted" /\ runCount = 1 /\ calls >= 1

\* C10: a Result holds exactly one of a value and an error (IsOK is the
\* negation of IsError, MakeError gives an error with its message, value
\* construction gives a value), and no assert of Result fails: main calls
\* GetErrorMessage only on an error and GetValue only on a value.
C10_ResultAccess ==
  /\ ~assertFailed
  /\ maybeCode.alt # "unset" =>
       /\ IsOK(maybeCode) # IsError(maybeCode)
       /\ IsError(maybeCode) =>
            maybeCode.payload \in { strerror(e) : e \in Errnos }
       /\ IsOK(maybeCode) => maybeCode.payload.len \in 0..MaxFileSize
  /\ pc \in {"compile", "aborted"} => IsOK(maybeCode)
  /\ \A i \in 1..Len(stderr) :
       stderr[i][1] = "Failed to read" =>
         (IsError(maybeCode) /\ stderr[i][2] = maybeCode.payload)

C10_Witness ==
  /\ pc = "returned"
  /\ IsError(maybeCode)
  /\ \E i \in 1..Len(stderr) : stderr[i][1] = "Failed to read"

====
